---- MODULE Spec2Model ----
(***************************************************************************)
(* Model of src/app/api/image-upload/route.ts: the image-upload POST        *)
(* handler (lines 20-80) and the video-upload POST handler (lines 106-179)  *)
(* with the module-level PrismaClient (line 88).                            *)
(*                                                                          *)
(* JavaScript runs a handler to its next await without interruption, so    *)
(* every action below is one such run: from the call of the handler, or    *)
(* from the completion of the awaited operation, up to the next await or   *)
(* to the end of the handler.  Invocations interleave at the awaits.       *)
(***************************************************************************)
EXTENDS Integers, Sequences, FiniteSets, TLC

\* ------------------------------------------------------------------ bounds
\* Number of handler invocations in a run.
NumInv == 2

Inv == 1..NumInv

\* ------------------------------------------------------------------ values
\* JavaScript null / undefined, as records so that they compare with records.
Null == [null |-> TRUE]
Undefined == [undefined |-> TRUE]

\* A JavaScript string value.
Str(s) == [text |-> s]

\* What formData.get("file") can return: nothing, an empty or a non-empty
\* string field, or a File.
FileBlob == [file |-> "blob"]
FileValues == {Null, Str(""), Str("abc"), FileBlob}

\* A value whose property reads throw a TypeError.
Nullish(v) == v = Null \/ v = Undefined

\* `!file`, `!userId`, `if (error)`: null, undefined and the empty string are
\* falsy.
Falsy(v) == v = Null \/ v = Undefined \/ v = Str("")

\* The decoded multipart bodies the model draws from.  BadBody is a body
\* request.formData() rejects.
BadBody == [bad |-> TRUE]
Form(f) ==
    [file |-> f, title |-> Str("t"), description |-> Str("d"),
     originalSize |-> Str("2097152")]
Forms == {Form(f) : f \in FileValues}

\* process.env as lines 111-113 read it: the three Cloudinary credentials,
\* each set or not.
Envs == [cloud_name : BOOLEAN, api_key : BOOLEAN, api_secret : BOOLEAN]
FullEnv == [cloud_name |-> TRUE, api_key |-> TRUE, api_secret |-> TRUE]
\* The environments with exactly one credential missing, and with none set.
OneMissing ==
    {e \in Envs :
        Cardinality({c \in {"cloud_name", "api_key", "api_secret"} : ~e[c]}) = 1}
NoEnv == [cloud_name |-> FALSE, api_key |-> FALSE, api_secret |-> FALSE]

\* What auth() of line 22 does for a request: it returns the identity Clerk
\* holds for it, a user id or none, or it throws.
NoUser == Null
User == Str("user_1")
AuthReturns(u) == [userId |-> u]
AuthThrows == [throws |-> TRUE]

\* A request: the endpoint it is sent to, what auth() does for it, its body,
\* and the environment of the process that serves it.
Request(k, a, b, e) == [kind |-> k, auth |-> a, body |-> b, env |-> e]

\* The requests the model draws from.  On the image endpoint: every body
\* with an identity; a file and no file without an identity; a file with one
\* credential missing; a request auth() throws for.  On the video endpoint: an
\* undecodable body, no file and a file, with an identity; the file without
\* an identity; the file with a credential missing, each of the three; no
\* file with no credential at all.
Requests ==
    {Request("image", AuthReturns(User), b, FullEnv) : b \in {BadBody} \cup Forms}
    \cup {Request("image", AuthReturns(NoUser), Form(f), FullEnv) : f \in {Null, FileBlob}}
    \cup {Request("image", AuthReturns(User), Form(FileBlob),
                   [FullEnv EXCEPT !.api_secret = FALSE])}
    \cup {Request("image", AuthThrows, Form(FileBlob), FullEnv)}
    \cup {Request("video", AuthReturns(User), b, FullEnv) :
            b \in {BadBody, Form(Null), Form(FileBlob)}}
    \cup {Request("video", AuthReturns(NoUser), Form(FileBlob), FullEnv)}
    \cup {Request("video", AuthReturns(User), Form(FileBlob), e) : e \in OneMissing}
    \cup {Request("video", AuthReturns(User), Form(Null), NoEnv)}
NoRequest == [kind |-> "none"]

\* The options the handlers pass to upload_stream (lines 52 and 139-145).
ImageOptions == [folder |-> "next-cloudinary-uploads"]
VideoOptions ==
    [resource_type |-> "video", folder |-> "video-uploads",
     transformation |-> <<[quality |-> "auto", fetch_format |-> "mp4"]>>]

\* CloudinaryUploadResult (lines 14-17 and 98-103) as the service builds it
\* for an upload with options opts: the public id lies in the folder asked
\* for; duration is optional.
Results(opts) ==
    {[public_id |-> <<opts.folder, "a">>, bytes |-> 1234, duration |-> 7],
     [public_id |-> <<opts.folder, "b">>, bytes |-> 0]}

TransportError == [error |-> "transport"]
StreamError == [error |-> "upload_stream threw"]
EndError == [error |-> "end threw"]

\* The (error, result) pairs the service may hand to the completion callback.
CallbackArgs(opts) ==
    {[error |-> TransportError, result |-> Undefined],
     [error |-> Undefined, result |-> Undefined]}
    \cup {[error |-> Undefined, result |-> r] : r \in Results(opts)}

\* ------------------------------------------------------------------ promise
Pending == [state |-> "pending"]
Fulfilled(v) == [state |-> "fulfilled", value |-> v]
Rejected(e) == [state |-> "rejected", value |-> e]

\* resolve / reject of a JavaScript promise: only the first call settles it.
SettleOverwrite(p, o) == o
Settle(p, o) == IF p.state = "pending" THEN o ELSE p

RECURSIVE SettleAll(_, _)
SettleAll(p, os) ==
    IF os = <<>> THEN p ELSE SettleAll(Settle(p, Head(os)), Tail(os))

\* The completion callback of lines 53-57 and 146-150.
Callback(error, result) ==
    IF ~Falsy(error) THEN Rejected(error) ELSE Fulfilled(result)

\* The executor of lines 49-61 and 137-153, run synchronously by
\* `new Promise`: the settle attempts it makes.  upload_stream may throw and
\* end(buffer) may throw; the constructor turns a throw into a reject.
Executor(streamThrows, endThrows) ==
    IF streamThrows THEN <<Rejected(StreamError)>>
    ELSE IF endThrows THEN <<Rejected(EndError)>>
    ELSE <<>>

\* The calls the executor makes on the media service.
ExecutorCalls(streamThrows) ==
    IF streamThrows THEN <<"upload_stream">> ELSE <<"upload_stream", "end">>

\* ------------------------------------------------------------------ responses
Json(body, status) == [status |-> status, body |-> body]
NoResponse == [none |-> TRUE]
\* The handler's promise rejected: the exception went to the caller.
Thrown(e) == [thrown |-> e]
IsJson(r) == "status" \in DOMAIN r

\* ------------------------------------------------------------------ state
VARIABLES
    pc,         \* pc[i]: where invocation i is suspended
    req,        \* req[i]: the request invocation i serves
    promise,    \* promise[i]: the upload promise of invocation i
    first,      \* first[i]: the first settle attempt made on promise[i]
    last,       \* last[i]: the latest settle attempt made on promise[i] while awaited
    delivered,  \* delivered[i]: outcomes the await handed to the handler
    calls,      \* calls[i]: the external calls invocation i has made
    completion, \* completion[i]: what try/catch decided, held during finally
    response,   \* response[i]: what the handler gave its caller
    video,      \* video[i]: the row prisma.video.create returned to i
    db,         \* rows of the video table, in insertion order
    prismaConnected, \* connection state of the module-level PrismaClient
    route       \* the route module the run exercises

vars == <<pc, req, promise, first, last, delivered, calls, completion,
          response, video, db, prismaConnected, route>>

NoAttempt == [none |-> TRUE]

Init ==
    /\ pc = [i \in Inv |-> "idle"]
    /\ req = [i \in Inv |-> NoRequest]
    /\ promise = [i \in Inv |-> Pending]
    /\ first = [i \in Inv |-> NoAttempt]
    /\ last = [i \in Inv |-> "none"]
    /\ delivered = [i \in Inv |-> <<>>]
    /\ calls = [i \in Inv |-> <<>>]
    /\ completion = [i \in Inv |-> NoResponse]
    /\ response = [i \in Inv |-> NoResponse]
    /\ video = [i \in Inv |-> Null]
    /\ db = <<>>
    /\ prismaConnected = FALSE
    /\ route \in {"image", "video"}

\* Invocations are numbered in the order they arrive.
MayStart(i) == pc[i] = "idle" /\ \A j \in Inv : j < i => pc[j] # "idle"

\* The file holds two route modules, each with its own imports and its own
\* POST; they share no variable.  A run exercises one of them.
Serves(r) == r.kind = route

Has(cs, c) == \E k \in 1..Len(cs) : cs[k] = c

LastOf(l, os) == IF os = <<>> THEN l ELSE os[Len(os)].state

FirstOf(f, os) == IF f = NoAttempt /\ os # <<>> THEN Head(os) ELSE f

\* Invocation i makes the calls cs and suspends at the await `at`.
Await(i, at, cs) ==
    /\ pc' = [pc EXCEPT ![i] = at]
    /\ calls' = [calls EXCEPT ![i] = @ \o cs]
    /\ UNCHANGED <<completion, response>>

\* Invocation i makes the calls cs and its handler completes with r: a
\* response it returns or an exception it throws.
Finish(i, r, cs) ==
    /\ pc' = [pc EXCEPT ![i] = "done"]
    /\ response' = [response EXCEPT ![i] = r]
    /\ calls' = [calls EXCEPT ![i] = @ \o cs]
    /\ UNCHANGED completion

\* The settle attempts os are made, in order, on the upload promise of
\* invocation i (lines 48-62 and 137-153).
BuildPromise(i, os) ==
    /\ promise' = [promise EXCEPT ![i] = SettleAll(@, os)]
    /\ first' = [first EXCEPT ![i] = FirstOf(@, os)]
    /\ last' = [last EXCEPT ![i] = LastOf(@, os)]

\* What one invocation of the completion callback with arguments args does
\* to the upload promise p, with first settle attempt f and latest attempt l:
\* the callback makes one settle attempt.  awaited tells whether the handler
\* still awaits the promise.
CallbackEffect(p, f, l, awaited, args) ==
    LET o == Callback(args.error, args.result)
    IN [promise |-> Settle(p, o), first |-> FirstOf(f, <<o>>),
        last |-> IF awaited THEN o.state ELSE l]

\* The media service invokes the completion callback of invocation i's upload
\* stream (lines 53-57 and 146-150), with one of the argument pairs it may
\* hand over for an upload with options opts.  It may do so at any time once
\* the stream has the buffer, and any number of times: while the promise is
\* pending; once it is settled and the handler has not yet resumed (the
\* continuation of the await is queued behind what was queued before it); and
\* after the handler has resumed, until its caller has taken the result.
CompletionCallback(i, opts) ==
    /\ Has(calls[i], "end")
    /\ \E e \in {CallbackEffect(promise[i], first[i], last[i], pc[i] = "upload", args) :
                    args \in CallbackArgs(opts)} :
        /\ promise' = [promise EXCEPT ![i] = e.promise]
        /\ first' = [first EXCEPT ![i] = e.first]
        /\ last' = [last EXCEPT ![i] = e.last]
    /\ UNCHANGED <<pc, req, delivered, calls, completion, response, video, db,
                   prismaConnected, route>>

\* ------------------------------------------------------------------ image
ImageUnauthorized == Json([error |-> "Unauthorized"], 401)
ImageFileNotFound == Json([error |-> "File not found"], 400)
ImageFailed == Json([error |-> "Upload image failed"], 500)

\* Line 25: the identity check.
ImageAuthorizedAlways(userId) == TRUE
ImageAuthorized(userId) == ~Falsy(userId)

\* Lines 20-32: auth(), outside the try block; the identity check; the call
\* of formData().
ImageStart(i) ==
    /\ MayStart(i)
    /\ \E r \in Requests :
        /\ r.kind = "image" /\ Serves(r)
        /\ req' = [req EXCEPT ![i] = r]
        /\ IF r.auth = AuthThrows
             THEN Finish(i, Thrown([error |-> "auth threw"]), <<"auth">>)
           ELSE IF ~ImageAuthorized(r.auth.userId)
             THEN Finish(i, ImageUnauthorized, <<"auth">>)
           ELSE Await(i, "formData", <<"auth", "formData">>)
    /\ UNCHANGED <<promise, first, last, delivered, video, db,
                   prismaConnected, route>>

\* Lines 32-43: formData() completes; the file check; the call of
\* arrayBuffer().  A string field has no arrayBuffer method.
ImageFormData(i) ==
    /\ pc[i] = "formData" /\ req[i].kind = "image"
    /\ IF req[i].body = BadBody THEN Finish(i, ImageFailed, <<>>)
       ELSE IF Falsy(req[i].body.file) THEN Finish(i, ImageFileNotFound, <<>>)
       ELSE IF req[i].body.file # FileBlob THEN Finish(i, ImageFailed, <<>>)
       ELSE Await(i, "arrayBuffer", <<"arrayBuffer">>)
    /\ UNCHANGED <<req, promise, first, last, delivered, video, db,
                   prismaConnected, route>>

\* Lines 64-79: what the image handler answers once the upload promise has
\* settled with outcome o.  Reading public_id of undefined throws.
ImageAfterUploadWholeResult(o) ==
    IF o.state = "fulfilled" /\ ~Nullish(o.value)
    THEN Json(o.value, 200)
    ELSE ImageFailed
ImageAfterUpload(o) ==
    IF o.state = "fulfilled" /\ ~Nullish(o.value)
    THEN Json([publicId |-> o.value.public_id], 200)
    ELSE ImageFailed

\* Lines 43-62: arrayBuffer() completes; Buffer.from; the upload promise is
\* built and its executor run; the handler awaits the promise.
ImageArrayBuffer(i) ==
    /\ pc[i] = "arrayBuffer" /\ req[i].kind = "image"
    /\ \E rejects \in BOOLEAN, streamThrows \in BOOLEAN, endThrows \in BOOLEAN :
        IF rejects
        THEN /\ Finish(i, ImageFailed, <<>>)
             /\ UNCHANGED <<promise, first, last>>
        ELSE /\ BuildPromise(i, Executor(streamThrows, endThrows))
             /\ Await(i, "upload", ExecutorCalls(streamThrows))
    /\ UNCHANGED <<req, delivered, video, db, prismaConnected, route>>

\* Lines 53-57: the completion callback of the image upload.
ImageCallback(i) ==
    /\ req[i].kind = "image"
    /\ CompletionCallback(i, ImageOptions)

\* Lines 48 and 64-79: the await resumes with the settled promise's outcome.
ImageResume(i) ==
    /\ pc[i] = "upload" /\ req[i].kind = "image"
    /\ promise[i] # Pending
    /\ delivered' = [delivered EXCEPT ![i] = Append(@, promise[i])]
    /\ last' = [last EXCEPT ![i] = "none"]
    /\ Finish(i, ImageAfterUpload(promise[i]), <<>>)
    /\ UNCHANGED <<req, promise, first, video, db, prismaConnected, route>>

\* ------------------------------------------------------------------ video
VideoNoCredentials == Json([error |-> "Cloudinary credentials not found"], 500)
VideoFileNotFound == Json([error |-> "File not found"], 400)
VideoFailed == Json([error |-> "Upload video failed"], 500)

\* Lines 110-114: the credentials check.
HasCredentials(env) == env.cloud_name /\ env.api_key /\ env.api_secret

\* String(n) of line 162 for a non-negative integer: its decimal digits.
Digit == <<"0", "1", "2", "3", "4", "5", "6", "7", "8", "9">>
RECURSIVE String(_)
String(n) ==
    IF n < 10 THEN Digit[n + 1] ELSE String(n \div 10) \o Digit[(n % 10) + 1]

\* `result.duration || 0` of line 163: an absent or zero duration gives 0.
DurationOrZero(result) ==
    IF "duration" \in DOMAIN result /\ result.duration # 0
    THEN result.duration ELSE 0

\* Lines 157-164: the data handed to prisma.video.create.
VideoDataSizesSwapped(form, result) ==
    [title |-> form.title,
     description |-> form.description,
     publicId |-> result.public_id,
     originalSize |-> Str(String(result.bytes)),
     compressedSize |-> form.originalSize,
     duration |-> DurationOrZero(result)]
VideoData(form, result) ==
    [title |-> form.title,
     description |-> form.description,
     publicId |-> result.public_id,
     originalSize |-> form.originalSize,
     compressedSize |-> Str(String(result.bytes)),
     duration |-> DurationOrZero(result)]

\* The row the store makes of the data: it assigns the identifier.
Row(id, data) ==
    [id |-> id, title |-> data.title, description |-> data.description,
     publicId |-> data.publicId, originalSize |-> data.originalSize,
     compressedSize |-> data.compressedSize, duration |-> data.duration]

\* Lines 170-177: a return or a caught exception inside try decides the
\* completion c; the finally block then calls prisma.$disconnect() and awaits
\* it.
VideoFinally(i, c, cs) ==
    /\ pc' = [pc EXCEPT ![i] = "disconnect"]
    /\ completion' = [completion EXCEPT ![i] = c]
    /\ calls' = [calls EXCEPT ![i] = @ \o cs \o <<"disconnect">>]
    /\ UNCHANGED response

\* Lines 108-117 and 175-178: the return of the credentials check lies inside
\* the try block, so the finally block runs.
VideoNoCredentialsOutsideTry(i) == Finish(i, VideoNoCredentials, <<>>)
VideoNoCredentialsExit(i) == VideoFinally(i, VideoNoCredentials, <<>>)

\* Lines 108-117: what the video handler checks of a request r before it
\* decodes the body: the credentials in the environment of the process, and
\* nothing else; auth() is not called.
VideoPreCheckWithIdentity(r) ==
    HasCredentials(r.env) /\ r.auth # AuthReturns(NoUser)
VideoPreCheck(r) == HasCredentials(r.env)

\* Lines 106-120: the credentials check and the call of formData().
VideoStart(i) ==
    /\ MayStart(i)
    /\ \E r \in Requests :
        /\ r.kind = "video" /\ Serves(r)
        /\ req' = [req EXCEPT ![i] = r]
        /\ IF ~VideoPreCheck(r)
           THEN VideoNoCredentialsExit(i)
           ELSE Await(i, "formData", <<"formData">>)
    /\ UNCHANGED <<promise, first, last, delivered, video, db,
                   prismaConnected, route>>

\* Lines 120-133: formData() completes; the fields are read; the file check;
\* the call of arrayBuffer().
VideoFormData(i) ==
    /\ pc[i] = "formData" /\ req[i].kind = "video"
    /\ IF req[i].body = BadBody THEN VideoFinally(i, VideoFailed, <<>>)
       ELSE IF Falsy(req[i].body.file) THEN VideoFinally(i, VideoFileNotFound, <<>>)
       ELSE IF req[i].body.file # FileBlob THEN VideoFinally(i, VideoFailed, <<>>)
       ELSE Await(i, "arrayBuffer", <<"arrayBuffer">>)
    /\ UNCHANGED <<req, promise, first, last, delivered, video, db,
                   prismaConnected, route>>

\* Lines 133-153: arrayBuffer() completes; Buffer.from; the upload promise is
\* built and its executor run; the handler awaits the promise.
VideoArrayBuffer(i) ==
    /\ pc[i] = "arrayBuffer" /\ req[i].kind = "video"
    /\ \E rejects \in BOOLEAN, streamThrows \in BOOLEAN, endThrows \in BOOLEAN :
        IF rejects
        THEN /\ VideoFinally(i, VideoFailed, <<>>)
             /\ UNCHANGED <<promise, first, last>>
        ELSE /\ BuildPromise(i, Executor(streamThrows, endThrows))
             /\ Await(i, "upload", ExecutorCalls(streamThrows))
    /\ UNCHANGED <<req, delivered, video, db, prismaConnected, route>>

\* Lines 146-150: the completion callback of the video upload.
VideoCallback(i) ==
    /\ req[i].kind = "video"
    /\ CompletionCallback(i, VideoOptions)

\* Lines 137 and 155-165: whether the handler, resumed with outcome o of the
\* upload promise, goes on to prisma.video.create.  A rejection, and the
\* TypeError of reading public_id of undefined, go to the catch block.
VideoProceedsAnyway(o) == TRUE
VideoProceeds(o) == o.state = "fulfilled" /\ ~Nullish(o.value)

\* Lines 156-165: prisma.video.create is called and awaited: the handler makes
\* no other call until it completes.
VideoCallCreateNotAwaited(i) == Await(i, "create", <<"create", "disconnect">>)
VideoCallCreate(i) == Await(i, "create", <<"create">>)

\* Lines 137-165: the await resumes with the settled promise's outcome; on
\* success prisma.video.create is called (the client connects on its first
\* query) and awaited.
VideoResume(i) ==
    /\ pc[i] = "upload" /\ req[i].kind = "video"
    /\ promise[i] # Pending
    /\ delivered' = [delivered EXCEPT ![i] = Append(@, promise[i])]
    /\ last' = [last EXCEPT ![i] = "none"]
    /\ IF VideoProceeds(promise[i])
       THEN /\ VideoCallCreate(i)
            /\ prismaConnected' = TRUE
       ELSE /\ VideoFinally(i, VideoFailed, <<>>)
            /\ UNCHANGED prismaConnected
    /\ UNCHANGED <<req, promise, first, video, db, route>>

\* Lines 156-177: prisma.video.create completes, with the stored row or with
\* an error; the handler returns the row or the failure response; finally.
VideoCreate(i) ==
    /\ pc[i] = "create"
    /\ \E stored \in BOOLEAN :
        IF stored
        THEN LET row == Row(Len(db) + 1,
                            VideoData(req[i].body, delivered[i][1].value))
             IN /\ db' = Append(db, [by |-> i, row |-> row])
                /\ video' = [video EXCEPT ![i] = row]
                /\ VideoFinally(i, Json(row, 200), <<>>)
        ELSE /\ VideoFinally(i, VideoFailed, <<>>)
             /\ UNCHANGED <<db, video>>
    /\ UNCHANGED <<req, promise, first, last, delivered, prismaConnected, route>>

\* Lines 175-179: prisma.$disconnect() completes.  If it rejects, the
\* exception replaces the completion of the try block.
VideoDisconnect(i) ==
    /\ pc[i] = "disconnect"
    /\ \E rejects \in BOOLEAN :
        IF rejects
        THEN /\ Finish(i, Thrown([error |-> "disconnect rejected"]), <<>>)
             /\ UNCHANGED prismaConnected
        ELSE /\ Finish(i, completion[i], <<>>)
             /\ prismaConnected' = FALSE
    /\ UNCHANGED <<req, promise, first, last, delivered, video, db, route>>

\* ------------------------------------------------------------------ spec
\* The caller of invocation i, which awaits the handler, takes its result: the
\* response or the exception.  The handler's return only settles its promise;
\* the caller continues in a later job, and other invocations may run before
\* it does.  The invocation's frame, with the request and the upload result,
\* is dropped.
Retire(i) ==
    /\ pc[i] = "done"
    /\ pc' = [pc EXCEPT ![i] = "retired"]
    /\ req' = [req EXCEPT ![i] = NoRequest]
    /\ promise' = [promise EXCEPT ![i] = Pending]
    /\ first' = [first EXCEPT ![i] = NoAttempt]
    /\ last' = [last EXCEPT ![i] = "none"]
    /\ delivered' = [delivered EXCEPT ![i] = <<>>]
    /\ calls' = [calls EXCEPT ![i] = <<>>]
    /\ completion' = [completion EXCEPT ![i] = NoResponse]
    /\ response' = [response EXCEPT ![i] = NoResponse]
    /\ video' = [video EXCEPT ![i] = Null]
    /\ UNCHANGED <<db, prismaConnected, route>>

Next ==
    \E i \in Inv :
        \/ ImageStart(i)
        \/ ImageFormData(i)
        \/ ImageArrayBuffer(i)
        \/ ImageCallback(i)
        \/ ImageResume(i)
        \/ VideoStart(i)
        \/ VideoFormData(i)
        \/ VideoArrayBuffer(i)
        \/ VideoCallback(i)
        \/ VideoResume(i)
        \/ VideoCreate(i)
        \/ VideoDisconnect(i)
        \/ Retire(i)

Spec == Init /\ [][Next]_vars

\* The steps the environment owes an invocation it serves: the decoding of the
\* request completes (lines 32, 43, 120, 133), the media service invokes the
\* completion callback (lines 53, 146), the store call and the disconnect
\* complete (lines 156, 176); and the steps the JavaScript runtime owes it: an
\* await on a settled promise resumes, a returned handler leaves.
DecodingCompletes(i) ==
    ImageFormData(i) \/ ImageArrayBuffer(i) \/ VideoFormData(i) \/ VideoArrayBuffer(i)
CallbackStep(i) == ImageCallback(i) \/ VideoCallback(i)
AwaitResumes(i) == ImageResume(i) \/ VideoResume(i)
StoreReturns(i) == VideoCreate(i) \/ VideoDisconnect(i)

Fairness ==
    \A i \in Inv :
        /\ WF_vars(DecodingCompletes(i))
        /\ WF_vars(CallbackStep(i))
        /\ WF_vars(AwaitResumes(i))
        /\ WF_vars(StoreReturns(i))
        /\ WF_vars(Retire(i))

FairSpec == Spec /\ Fairness

\* ------------------------------------------------------------------ claims
Settled(p) == p.state \in {"fulfilled", "rejected"}
IsVideo(i) == req[i].kind = "video"
IsImage(i) == req[i].kind = "image"
\* The handler of invocation i has got past the await of its upload promise.
PastUpload(i) ==
    Has(calls[i], "upload_stream") /\ pc[i] \in {"create", "disconnect", "done"}
\* Invocation i awaits, or has not yet built, its upload promise.
BeforeResume(i) == pc[i] \in {"idle", "formData", "arrayBuffer", "upload"}
\* The rows invocation i has inserted.
RowsBy(i) == {k \in 1..Len(db) : db[k].by = i}

\* C1: every upload promise, image or video, yields exactly one outcome: it
\* is settled by the first settle attempt (the first callback invocation, or
\* the throw of the stream call) and by no later one, whatever the later
\* attempts are, and the handler's await receives that one outcome once; an
\* attempt is never dropped.
C1_ExactlyOneOutcome ==
    \A i \in Inv :
        /\ (first[i] = NoAttempt) <=> (promise[i] = Pending)
        /\ first[i] # NoAttempt => Settled(first[i]) /\ promise[i] = first[i]
        /\ Len(delivered[i]) <= 1
        /\ BeforeResume(i) => delivered[i] = <<>>
        /\ PastUpload(i) => delivered[i] = <<first[i]>>

\* A reject came first and a later resolve was ignored: the handler is about
\* to receive the rejection alone.
C1_Witness ==
    \E i \in Inv :
        /\ pc[i] = "upload" /\ promise[i] = Rejected(TransportError)
        /\ last[i] = "fulfilled"

\* C2: upload before persist.  prisma.video.create is called only once the
\* await has delivered a fulfilled upload with a result of the service, after
\* the stream calls, never while the upload is awaited and never after a
\* rejection; every row an invocation has inserted carries the public id of
\* that delivered result.
C2_UploadBeforePersist ==
    \A i \in Inv :
        /\ BeforeResume(i) => ~Has(calls[i], "create") /\ RowsBy(i) = {}
        /\ Has(calls[i], "create") =>
              /\ Len(delivered[i]) = 1
              /\ delivered[i][1].state = "fulfilled"
              /\ delivered[i][1].value \in Results(VideoOptions)
              /\ \E k \in 1..Len(calls[i]) :
                    /\ calls[i][k] = "create"
                    /\ \E e \in 1..(k - 1) : calls[i][e] = "end"
        /\ pc[i] # "retired" =>
              \A k \in RowsBy(i) :
                  /\ Has(calls[i], "create")
                  /\ db[k].row.publicId = delivered[i][1].value.public_id

\* A video row is in the table, inserted after its upload succeeded.
C2_Witness ==
    \E i \in Inv :
        /\ pc[i] = "disconnect" /\ RowsBy(i) # {}
        /\ delivered[i][1].state = "fulfilled"

\* C3: if the upload fails, by an error handed to the callback or by a throw
\* of the stream calls, the invocation creates no record and answers 500 with
\* its path's upload-failure body.
C3_UploadFailureAnswers500 ==
    \A i \in Inv :
        (pc[i] = "done" /\ delivered[i] # <<>> /\ delivered[i][1].state = "rejected")
        => /\ ~Has(calls[i], "create") /\ RowsBy(i) = {}
           /\ IsImage(i) => response[i] = Json([error |-> "Upload image failed"], 500)
           /\ IsVideo(i) => response[i] = Json([error |-> "Upload video failed"], 500)

\* The decimal numerals of the byte sizes the service reports in the model.
Numeral(n) == CASE n = 0 -> "0" [] n = 1234 -> "1234"

\* C4: a video invocation whose metadata write succeeded has inserted exactly
\* one row, the one it got back, with publicId the service's public_id,
\* originalSize the caller's field as sent, compressedSize the decimal
\* numeral of the service's byte size, and duration the service's duration,
\* or 0 when it reported none.
C4_OneRecordWithServiceFields ==
    \A i \in Inv :
        (pc[i] \in {"disconnect", "done"} /\ video[i] # Null) =>
            LET r == delivered[i][1].value
            IN /\ Cardinality(RowsBy(i)) = 1
               /\ \A k \in RowsBy(i) : db[k].row = video[i]
               /\ video[i].publicId = r.public_id
               /\ video[i].originalSize = req[i].body.originalSize
               /\ video[i].title = req[i].body.title
               /\ video[i].description = req[i].body.description
               /\ video[i].compressedSize = Str(Numeral(r.bytes))
               /\ video[i].duration =
                     IF "duration" \in DOMAIN r THEN r.duration ELSE 0

\* A row was written for an upload the service reported without a duration.
C4_Witness ==
    \E i \in Inv :
        /\ pc[i] = "done" /\ video[i] # Null
        /\ "duration" \notin DOMAIN delivered[i][1].value
        /\ video[i].duration = 0 /\ video[i].compressedSize = Str("0")

\* C5: if the metadata write fails after a successful upload, the video
\* invocation answers with status 500 and not with a success; the upload the
\* service reported as succeeded is left with no row for it, and no delete
\* call is made.
C5_WriteFailureAnswers500 ==
    \A i \in Inv :
        (pc[i] = "done" /\ Has(calls[i], "create") /\ video[i] = Null)
        => /\ IsJson(response[i]) /\ response[i].status = 500
           /\ delivered[i][1].state = "fulfilled"
           /\ delivered[i][1].value \in Results(VideoOptions)
           /\ RowsBy(i) = {}
           /\ ~Has(calls[i], "destroy")

\* C6: a video invocation never completes without prisma.$disconnect()
\* having been called, as its last call and once, on every exit path.
C6_DisconnectOnEveryExit ==
    \A i \in Inv :
        (pc[i] = "done" /\ IsVideo(i))
        => /\ calls[i] # <<>> /\ calls[i][Len(calls[i])] = "disconnect"
           /\ Cardinality({k \in 1..Len(calls[i]) : calls[i][k] = "disconnect"}) = 1

\* The credentials-missing exit has completed, after the disconnect.
C6_Witness ==
    \E i \in Inv :
        /\ pc[i] = "done" /\ IsVideo(i) /\ ~HasCredentials(req[i].env)
        /\ calls[i] = <<"disconnect">>

\* C7: no invocation's disconnect releases the store client another
\* invocation is in the middle of its metadata write with: while a write is
\* in flight its client stays connected.
C7_WriteClientNeverReleased ==
    \A i \in Inv : pc[i] = "create" => prismaConnected

\* C8: an image request for which auth() returns no identity is answered 401
\* {error: "Unauthorized"} at once, having called nothing but auth(): no
\* decoding, no upload, no persistence.
C8_Unauthorized401 ==
    \A i \in Inv :
        (IsImage(i) /\ req[i].auth = AuthReturns(NoUser))
        => /\ pc[i] = "done"
           /\ response[i] = Json([error |-> "Unauthorized"], 401)
           /\ calls[i] = <<"auth">>
           /\ promise[i] = Pending /\ delivered[i] = <<>>
           /\ RowsBy(i) = {}

\* An image request with a file and no identity has been answered.
C8_Witness ==
    \E i \in Inv :
        /\ pc[i] = "done" /\ IsImage(i) /\ req[i].auth = AuthReturns(NoUser)
        /\ req[i].body.file = FileBlob /\ response[i].status = 401

\* C9: a request whose decoded body has no file field is answered 400
\* {error: "File not found"}, with no upload call and no metadata write.
C9_FileNotFound400 ==
    \A i \in Inv :
        (pc[i] = "done" /\ Has(calls[i], "formData")
            /\ req[i].body # BadBody /\ req[i].body.file = Null)
        => /\ response[i] = Json([error |-> "File not found"], 400)
           /\ ~Has(calls[i], "upload_stream") /\ ~Has(calls[i], "create")
           /\ RowsBy(i) = {}

\* C10: every invocation ends with a JSON response; no exception leaves a
\* handler.
C10_NoExceptionEscapes ==
    \A i \in Inv : pc[i] = "done" => IsJson(response[i])

\* C11: a video request with any of the three credentials absent is answered
\* 500 {error: "Cloudinary credentials not found"}, with no upload call and no
\* metadata write of that invocation; the image handler makes no such check:
\* with a credential absent it goes on to the upload and never answers with
\* the credentials body.
C11_CredentialsCheckedOnVideoOnly ==
    \A i \in Inv :
        /\ (IsVideo(i) /\ ~HasCredentials(req[i].env))
           => /\ pc[i] \in {"disconnect", "done"}
              /\ ~Has(calls[i], "upload_stream") /\ ~Has(calls[i], "create")
              /\ RowsBy(i) = {}
              /\ pc[i] = "done" =>
                    response[i] = Json([error |-> "Cloudinary credentials not found"], 500)
        /\ (IsImage(i) /\ ~HasCredentials(req[i].env) /\ pc[i] = "done")
           => /\ Has(calls[i], "arrayBuffer")
              /\ response[i] # Json([error |-> "Cloudinary credentials not found"], 500)

\* C12: an image invocation whose upload succeeded answers 200 with a body of
\* exactly one key, publicId, holding the public id the service returned; and
\* the image path creates no metadata record: it makes no store call and the
\* video table stays as it was, on every exit.
C12_ImageSuccessPublicIdOnly ==
    /\ \A i \in Inv :
        /\ (IsImage(i) /\ pc[i] = "done" /\ delivered[i] # <<>>
                /\ delivered[i][1].state = "fulfilled"
                /\ delivered[i][1].value \in Results(ImageOptions))
           => /\ IsJson(response[i]) /\ response[i].status = 200
              /\ DOMAIN response[i].body = {"publicId"}
              /\ response[i].body.publicId = delivered[i][1].value.public_id
        /\ IsImage(i) => /\ ~Has(calls[i], "create") /\ ~Has(calls[i], "disconnect")
                         /\ video[i] = Null /\ RowsBy(i) = {}
    /\ route = "image" => db = <<>> /\ ~prismaConnected

\* An image upload succeeded and was answered with its public id.
C12_Witness ==
    \E i \in Inv :
        /\ IsImage(i) /\ pc[i] = "done"
        /\ delivered[i] = <<Fulfilled([public_id |-> <<"next-cloudinary-uploads", "b">>,
                                       bytes |-> 0])>>
        /\ response[i] = Json([publicId |-> <<"next-cloudinary-uploads", "b">>], 200)

\* Two video invocations whose requests differ only in the caller's identity.
Twins(i, j) ==
    /\ IsVideo(i) /\ IsVideo(j)
    /\ req[i].body = req[j].body /\ req[i].env = req[j].env
    /\ req[i].auth # req[j].auth
\* The media service and the store have treated invocations i and j alike:
\* the same first settle attempt on the upload promise, the same success or
\* failure of the metadata write.
TreatedAlike(i, j) ==
    /\ first[i] = first[j]
    /\ (video[i] = Null) <=> (video[j] = Null)
\* A completion without the row identifier, which the store assigns.
SansId(c) ==
    [status |-> c.status,
     body |-> [k \in DOMAIN c.body \ {"id"} |-> c.body[k]]]

\* C13: the video handler does not depend on the caller's identity.  It never
\* calls auth() and never answers 401; two invocations whose requests differ
\* only in the identity, and whom the service and the store treated alike,
\* have made the same sequence of calls and have the same completion when
\* their try blocks end, and, when the disconnect also ended alike for both,
\* the same response (up to the identifier the store gave the row).
C13_VideoIgnoresIdentity ==
    /\ \A i \in Inv :
        IsVideo(i) =>
            /\ ~Has(calls[i], "auth")
            /\ IsJson(completion[i]) => completion[i].status # 401
            /\ pc[i] = "done" =>
                  /\ response[i] \in
                        {completion[i], Thrown([error |-> "disconnect rejected"])}
                  /\ IsJson(response[i]) => response[i].status # 401
    /\ \A i, j \in Inv :
        (Twins(i, j) /\ TreatedAlike(i, j)) =>
            /\ (pc[i] = "disconnect" /\ pc[j] = "disconnect")
               => /\ calls[i] = calls[j]
                  /\ SansId(completion[i]) = SansId(completion[j])
            /\ (pc[i] = "done" /\ pc[j] = "done"
                    /\ (IsJson(response[i]) <=> IsJson(response[j])))
               => /\ calls[i] = calls[j]
                  /\ IF IsJson(response[i])
                     THEN SansId(response[i]) = SansId(response[j])
                     ELSE response[i] = response[j]

\* A request with an identity and the same request without one have both
\* uploaded, written their rows and returned their responses.
C13_Witness ==
    \E i, j \in Inv :
        /\ Twins(i, j) /\ TreatedAlike(i, j)
        /\ req[i].auth = AuthReturns(User) /\ req[j].auth = AuthReturns(NoUser)
        /\ pc[i] = "done" /\ pc[j] = "done"
        /\ video[i] # Null /\ video[j] # Null
        /\ response[i].status = 200 /\ response[j].status = 200

\* C14: the failure checks are made in a fixed order and the first failing one
\* decides the response.  An image request with no identity and no file is
\* answered 401, never 400, and its body is not decoded; a video request with
\* a credential absent and no file is answered with the 500 credentials
\* response, never 400, and its body is not decoded before the credentials
\* check.
C14_FirstFailingCheckDecides ==
    \A i \in Inv :
        /\ (IsImage(i) /\ req[i].auth = AuthReturns(NoUser)
                /\ req[i].body # BadBody /\ req[i].body.file = Null)
           => /\ ~Has(calls[i], "formData")
              /\ pc[i] = "done" => response[i] = Json([error |-> "Unauthorized"], 401)
        /\ (IsVideo(i) /\ ~HasCredentials(req[i].env)
                /\ req[i].body # BadBody /\ req[i].body.file = Null)
           => /\ ~Has(calls[i], "formData")
              /\ pc[i] = "done" =>
                    response[i] = Json([error |-> "Cloudinary credentials not found"], 500)

\* The place of a call in the video handler's text.
Rank(c) ==
    CASE c = "formData" -> 1 [] c = "arrayBuffer" -> 2 [] c = "upload_stream" -> 3
      [] c = "end" -> 4 [] c = "create" -> 5 [] c = "disconnect" -> 6

\* C15: the steps of one video invocation run in sequence and never overlap.
\* Its calls are made in the order of the handler's text, each at most once;
\* while it awaits the decoding, the upload or the metadata write it has not
\* called the disconnect; the disconnect is its last call, made once the write
\* has completed (with a row or a failure) or was skipped; no upload or write
\* call follows it.
C15_VideoStepsInSequence ==
    \A i \in Inv :
        IsVideo(i) =>
            /\ \A k \in 1..(Len(calls[i]) - 1) :
                  Rank(calls[i][k]) < Rank(calls[i][k + 1])
            /\ pc[i] \in {"formData", "arrayBuffer", "upload", "create"}
                  => ~Has(calls[i], "disconnect")
            /\ Has(calls[i], "disconnect") =>
                  /\ pc[i] \in {"disconnect", "done"}
                  /\ calls[i][Len(calls[i])] = "disconnect"
                  /\ Has(calls[i], "create") =>
                        \/ video[i] # Null /\ completion[i] = Json(video[i], 200)
                        \/ video[i] = Null /\ completion[i] = VideoFailed

\* The disconnect was issued after a metadata write that had completed.
C15_Witness ==
    \E i \in Inv :
        /\ IsVideo(i) /\ pc[i] = "disconnect"
        /\ calls[i] = <<"formData", "arrayBuffer", "upload_stream", "end",
                        "create", "disconnect">>
        /\ video[i] # Null

\* Invocation i has been called and its caller has not yet taken its result.
InProgress(i) == pc[i] \notin {"idle", "retired"}
\* The handler of invocation i has returned a response.
Responded(i) == pc[i] = "done" /\ IsJson(response[i])
\* The handler of invocation i waits for the completion callback.
AwaitsCallback(i) == pc[i] = "upload" /\ promise[i] = Pending

\* Every invocation that is served completes, with a response or with an
\* exception.
EveryInvocationCompletes ==
    \A i \in Inv : InProgress(i) ~> (pc[i] = "done")

\* An invocation completes at most once.
CompletesOnce ==
    [][\A i \in Inv : pc[i] = "retired" => pc'[i] = "retired"]_vars

\* There is no timeout and no cancellation: a handler that waits for the
\* completion callback goes on waiting through every step that is not an
\* invocation of that callback.
WaitsForCallback ==
    [][\A i \in Inv :
          (AwaitsCallback(i) /\ ~CallbackStep(i)) => AwaitsCallback(i)']_vars

\* C16: if the decoding completes, the store call and the disconnect return
\* and the service invokes the completion callback, every invocation of either
\* handler eventually returns a response, and only one; and a handler whose
\* callback the service never invokes waits forever.
C16_EveryInvocationResponds ==
    /\ \A i \in Inv : InProgress(i) ~> Responded(i)
    /\ CompletesOnce
    /\ WaitsForCallback

====
